---- MODULE Spec2Model ----
(***************************************************************************)
(* Model of the 8-bit ALU of src/main.c: alu_execute, its two overflow     *)
(* helpers and clear_flags, driven by a harness that hands it test         *)
(* vectors and owns the result byte and the flag structure.                *)
(*                                                                         *)
(* Values of C type int are modelled as unbounded two's-complement         *)
(* integers (every intermediate value here fits 32 bits); casts to         *)
(* uint8_t and uint16_t reduce modulo 2^8 and 2^16.                        *)
(***************************************************************************)
EXTENDS Integers, FiniteSets

\* ----------------------------------------------------------------- bounds

\* Operation tags run over 0..MaxOpTag; tags above OP_SHR are unrecognized.
MaxOpTag == 7

\* Radius of the operand neighbourhoods used by the multi-call harness.
Near == 0

\* ------------------------------------------------------------- ALUOp enum

OP_ADD == 0
OP_SUB == 1
OP_AND == 2
OP_OR == 3
OP_XOR == 4
OP_SHL == 5
OP_SHR == 6

\* ------------------------------------------------------- C integer helpers

\* uint8_t: the values of an operand and of the result.
Byte == 0..255

\* (uint8_t)x and (uint16_t)x for an int x.
U8(x) == x % 256

U16(x) == x % 65536

\* A C comparison or logical result as an int.
Bool(p) == IF p THEN 1 ELSE 0

\* ~x on int.
BitNot(x) == (-x) - 1

RECURSIVE BitAnd(_, _)
\* x & y on int (two's complement, floor division peels the low bit).
BitAnd(x, y) ==
    IF x = 0 \/ y = 0 THEN 0
    ELSE IF x = -1 THEN y
    ELSE IF y = -1 THEN x
    ELSE (x % 2) * (y % 2) + 2 * BitAnd(x \div 2, y \div 2)

RECURSIVE BitOr(_, _)
\* x | y on int.
BitOr(x, y) ==
    IF x = 0 THEN y
    ELSE IF y = 0 THEN x
    ELSE IF x = -1 \/ y = -1 THEN -1
    ELSE Bool(x % 2 = 1 \/ y % 2 = 1) + 2 * BitOr(x \div 2, y \div 2)

RECURSIVE BitXor(_, _)
\* x ^ y on int.
BitXor(x, y) ==
    IF x = 0 THEN y
    ELSE IF y = 0 THEN x
    ELSE IF x = -1 THEN BitNot(y)
    ELSE IF y = -1 THEN BitNot(x)
    ELSE Bool(x % 2 # y % 2) + 2 * BitXor(x \div 2, y \div 2)

\* ------------------------------------------------------------------ flags

\* ALUFlags: four uint8_t fields.
ALUFlags == [Z : Byte, C : Byte, N : Byte, V : Byte]

clear_flags_keep(f) == f

clear_flags_keepCV(f) == [f EXCEPT !.Z = 0, !.N = 0]

\* f->Z = f->C = f->N = f->V = 0
clear_flags(f) == [Z |-> 0, C |-> 0, N |-> 0, V |-> 0]

overflow_add_nonot(a_, b_, r) ==
    Bool(BitAnd(BitAnd(BitXor(a_, b_), BitXor(a_, r)), 128) # 0)

\* (uint8_t)((~(a ^ b) & (a ^ r) & 0x80) != 0)
overflow_add(a_, b_, r) ==
    U8(Bool(BitAnd(BitAnd(BitNot(BitXor(a_, b_)), BitXor(a_, r)), 128) # 0))

overflow_sub_b(a_, b_, r) ==
    U8(Bool(BitAnd(BitAnd(BitXor(a_, b_), BitXor(b_, r)), 128) # 0))

\* (uint8_t)(((a ^ b) & (a ^ r) & 0x80) != 0)
overflow_sub(a_, b_, r) ==
    U8(Bool(BitAnd(BitAnd(BitXor(a_, b_), BitXor(a_, r)), 128) # 0))

\* ------------------------------------------------- the branches of the switch
\* Each takes the operands and the storage st = [out, flags] as clear_flags
\* left it, and gives the storage at the branch's break.

case_ADD_carry_ge(a_, b_, st) ==
    LET temp == U16(a_ + b_)
        r == U8(BitAnd(temp, 255))
    IN  [out |-> r,
         flags |-> [st.flags EXCEPT !.C = U8(Bool(temp >= 255)),
                                    !.V = overflow_add(a_, b_, r)]]

case_ADD(a_, b_, st) ==
    LET temp == U16(a_ + b_)
        r == U8(BitAnd(temp, 255))
    IN  [out |-> r,
         flags |-> [st.flags EXCEPT !.C = U8(Bool(temp > 255)),
                                    !.V = overflow_add(a_, b_, r)]]

case_SUB_noborrow(a_, b_, st) ==
    LET temp == U16(a_ - b_)
        r == U8(BitAnd(temp, 255))
    IN  [out |-> r,
         flags |-> [st.flags EXCEPT !.C = U8(Bool(a_ >= b_)),
                                    !.V = overflow_sub(a_, b_, r)]]

case_SUB(a_, b_, st) ==
    LET temp == U16(a_ - b_)
        r == U8(BitAnd(temp, 255))
    IN  [out |-> r,
         flags |-> [st.flags EXCEPT !.C = U8(Bool(a_ < b_)),
                                    !.V = overflow_sub(a_, b_, r)]]

case_AND(a_, b_, st) == [st EXCEPT !.out = U8(BitAnd(a_, b_))]

case_OR(a_, b_, st) == [st EXCEPT !.out = U8(BitOr(a_, b_))]

case_XOR(a_, b_, st) == [st EXCEPT !.out = U8(BitXor(a_, b_))]

case_SHL_rotate(a_, b_, st) ==
    [out |-> U8(a_ * 2 + a_ \div 128),
     flags |-> [st.flags EXCEPT !.C = U8(Bool(BitAnd(a_, 128) # 0))]]

\* a << 1 on the promoted int is 2 * a.
case_SHL(a_, b_, st) ==
    [out |-> U8(a_ * 2),
     flags |-> [st.flags EXCEPT !.C = U8(Bool(BitAnd(a_, 128) # 0))]]

case_SHR_arith(a_, b_, st) ==
    [out |-> U8(a_ \div 2 + BitAnd(a_, 128)),
     flags |-> [st.flags EXCEPT !.C = U8(Bool(BitAnd(a_, 1) # 0))]]

\* a >> 1 on the promoted (non-negative) int is a \div 2.
case_SHR(a_, b_, st) ==
    [out |-> U8(a_ \div 2),
     flags |-> [st.flags EXCEPT !.C = U8(Bool(BitAnd(a_, 1) # 0))]]

case_default_keep(a_, b_, st) == st

case_default(a_, b_, st) == [st EXCEPT !.out = 0]

common_flags_bit6(st) ==
    [st EXCEPT !.flags.Z = U8(Bool(st.out = 0)),
               !.flags.N = U8(Bool(BitAnd(st.out, 64) # 0))]

\* The common flag updates after the switch.
common_flags(st) ==
    [st EXCEPT !.flags.Z = U8(Bool(st.out = 0)),
               !.flags.N = U8(Bool(BitAnd(st.out, 128) # 0))]

\* alu_execute(a, b, op, out, flags): from the caller's storage st at entry
\* to the caller's storage at return.
alu_execute(a_, b_, op_, st) ==
    LET cleared == [st EXCEPT !.flags = clear_flags(st.flags)]
        switched ==
            CASE op_ = OP_ADD -> case_ADD(a_, b_, cleared)
              [] op_ = OP_SUB -> case_SUB(a_, b_, cleared)
              [] op_ = OP_AND -> case_AND(a_, b_, cleared)
              [] op_ = OP_OR  -> case_OR(a_, b_, cleared)
              [] op_ = OP_XOR -> case_XOR(a_, b_, cleared)
              [] op_ = OP_SHL -> case_SHL(a_, b_, cleared)
              [] op_ = OP_SHR -> case_SHR(a_, b_, cleared)
              [] OTHER        -> case_default(a_, b_, cleared)
    IN  common_flags(switched)

\* ---------------------------------------------------------------- harness

VARIABLES
    a, b, op,   \* the test vector of the current call
    out, flags, \* the caller's result byte and flag structure
    prev,       \* the caller's storage as the current call finds (found) it
    pc          \* "call": vector chosen, call pending; "ret": call returned

vars == <<a, b, op, out, flags, prev, pc>>

Ops == 0..MaxOpTag

\* Operands near the ends and the sign boundary of the byte range.
Operands ==
    {x \in Byte : \/ x <= Near
                  \/ x >= 255 - Near
                  \/ (x >= 127 - Near /\ x <= 128 + Near)}

\* Values an indeterminate uint8_t is drawn from: no bit set, every bit set.
Indeterminate == {0, 255}

\* uint8_t result = 0; ALUFlags flags;  -- the fields of flags are indeterminate.
Locals ==
    [out : {0},
     flags : [Z : Indeterminate, C : Indeterminate,
              N : Indeterminate, V : Indeterminate]]

\* Storage contents a single call may find: zeroed, or every bit set.
CleanStorage == [out |-> 0, flags |-> [Z |-> 0, C |-> 0, N |-> 0, V |-> 0]]

DirtyStorage ==
    [out |-> 255, flags |-> [Z |-> 255, C |-> 255, N |-> 255, V |-> 255]]

TypeOK ==
    /\ a \in Byte /\ b \in Byte /\ op \in Ops
    /\ out \in Byte /\ flags \in ALUFlags
    /\ pc \in {"call", "ret"}

\* The call of the harness: alu_execute(a, b, op, &result, &flags).
Execute ==
    /\ pc = "call"
    /\ LET st == alu_execute(a, b, op, [out |-> out, flags |-> flags])
       IN  /\ out' = st.out
           /\ flags' = st.flags
    /\ pc' = "ret"
    /\ UNCHANGED <<a, b, op, prev>>

\* The next test vector, with the result and flag storage kept.
NextVector ==
    /\ pc = "ret"
    /\ a' \in Operands
    /\ b' \in Operands
    /\ op' \in Ops
    /\ prev' = [out |-> out, flags |-> flags]
    /\ pc' = "call"
    /\ UNCHANGED <<out, flags>>

\* A run of calls on reused storage, over the operand neighbourhoods.
Init ==
    /\ a \in Operands /\ b \in Operands /\ op \in Ops
    /\ \E loc \in Locals :
          /\ out = loc.out
          /\ flags = loc.flags
          /\ prev = loc
    /\ pc = "call"

Next == Execute \/ NextVector

Spec == Init /\ [][Next]_vars

\* One call for every operand pair and every tag, on clean and dirty storage.
InitAll ==
    /\ a \in Byte /\ b \in Byte /\ op \in Ops
    /\ \E st \in {CleanStorage, DirtyStorage} :
          /\ out = st.out
          /\ flags = st.flags
          /\ prev = st
    /\ pc = "call"

NextAll == Execute

SpecAll == InitAll /\ [][NextAll]_vars

\* ------------------------------------------------------------- properties

\* Bit i of a byte, and a byte read as an 8-bit two's-complement value.
Bit(x, i) == (x \div (2 ^ i)) % 2

Signed(x) == IF x >= 128 THEN x - 256 ELSE x

Returned(o) == pc = "ret" /\ op = o

Unrecognized == op \notin {OP_ADD, OP_SUB, OP_AND, OP_OR, OP_XOR, OP_SHL, OP_SHR}

\* C1: Add returns (a + b) mod 256, with Carry = 1 iff a + b >= 256, so that
\* 256 * Carry + Result = a + b.
C1_AddCarry ==
    Returned(OP_ADD) =>
        /\ out = (a + b) % 256
        /\ flags.C = Bool(a + b >= 256)
        /\ 256 * flags.C + out = a + b

C1_Witness ==
    /\ Returned(OP_ADD) /\ a = 255 /\ b = 1
    /\ out = 0
    /\ flags = [Z |-> 1, C |-> 1, N |-> 0, V |-> 0]

\* C2: Subtract returns (a - b) mod 256, with Carry = 1 exactly when a < b
\* (a borrow), so that Result - 256 * Carry = a - b.
C2_SubBorrow ==
    Returned(OP_SUB) =>
        /\ out = (a - b) % 256
        /\ flags.C = Bool(a < b)
        /\ out - 256 * flags.C = a - b

C2_Witness ==
    /\ Returned(OP_SUB) /\ a = 10 /\ b = 40
    /\ out = 226
    /\ flags.C = 1

\* C3: Add sets Overflow = 1 iff a and b have the same bit 7 and the result's
\* bit 7 differs from it, which is exactly when the sum of the operands read
\* as signed bytes lies outside -128..127.
C3_AddOverflow ==
    Returned(OP_ADD) =>
        /\ flags.V \in {0, 1}
        /\ flags.V = 1 <=> (Bit(a, 7) = Bit(b, 7) /\ Bit(out, 7) # Bit(a, 7))
        /\ flags.V = 1 <=> (Signed(a) + Signed(b) \notin -128..127)

C3_Witness ==
    /\ Returned(OP_ADD) /\ a = 127 /\ b = 1
    /\ out = 128
    /\ flags = [Z |-> 0, C |-> 0, N |-> 1, V |-> 1]

\* C4: Subtract sets Overflow = 1 iff a and b differ in bit 7 and the result's
\* bit 7 differs from a's, which is exactly when the difference of the
\* operands read as signed bytes lies outside -128..127.
C4_SubOverflow ==
    Returned(OP_SUB) =>
        /\ flags.V \in {0, 1}
        /\ flags.V = 1 <=> (Bit(a, 7) # Bit(b, 7) /\ Bit(out, 7) # Bit(a, 7))
        /\ flags.V = 1 <=> (Signed(a) - Signed(b) \notin -128..127)

C4_Witness ==
    /\ Returned(OP_SUB) /\ a = 128 /\ b = 1
    /\ out = 127
    /\ flags.V = 1

\* Prior storage contents the returned storage is compared across.
Priors == Locals \cup {CleanStorage, DirtyStorage, [DirtyStorage EXCEPT !.out = 0]}

\* C5: nothing carries over between calls on reused storage: what a call
\* returns is what the same (a, b, op) returns from any other prior storage
\* contents, so equal inputs give equal outputs.
C5_NoCarryOver ==
    pc = "ret" =>
        \A st \in Priors :
            alu_execute(a, b, op, st) = [out |-> out, flags |-> flags]

\* A call that found Carry, Negative and Overflow set by the call before it
\* (127 - 128) and returned them clear.
C5_Witness ==
    /\ Returned(OP_AND)
    /\ prev = [out |-> 255, flags |-> [Z |-> 0, C |-> 1, N |-> 1, V |-> 1]]
    /\ out = 0
    /\ flags = [Z |-> 1, C |-> 0, N |-> 0, V |-> 0]

\* C6: after any operation, recognized or not, Zero = 1 iff Result = 0 and
\* Negative = 1 iff Result >= 128.
C6_ZeroNegative ==
    pc = "ret" =>
        /\ flags.Z \in {0, 1}
        /\ flags.N \in {0, 1}
        /\ flags.Z = 1 <=> out = 0
        /\ flags.N = 1 <=> out >= 128

C6_Witness ==
    /\ Returned(OP_XOR) /\ a = 85 /\ b = 255
    /\ prev = DirtyStorage
    /\ out = 170
    /\ flags.Z = 0 /\ flags.N = 1

\* C7: And, Or, Xor return the bitwise and, or, exclusive or of a and b, bit
\* by bit, with Carry = 0 and Overflow = 0.
C7_Logic ==
    (pc = "ret" /\ op \in {OP_AND, OP_OR, OP_XOR}) =>
        /\ out \in Byte
        /\ \A i \in 0..7 :
              Bit(out, i) =
                  CASE op = OP_AND -> Bool(Bit(a, i) = 1 /\ Bit(b, i) = 1)
                    [] op = OP_OR  -> Bool(Bit(a, i) = 1 \/ Bit(b, i) = 1)
                    [] op = OP_XOR -> Bool(Bit(a, i) # Bit(b, i))
        /\ flags.C = 0
        /\ flags.V = 0

C7_Witness ==
    /\ Returned(OP_OR) /\ a = 240 /\ b = 15
    /\ prev.flags.C = 255 /\ prev.flags.V = 255
    /\ out = 255
    /\ flags = [Z |-> 0, C |-> 0, N |-> 1, V |-> 0]

\* C8: ShiftLeftLogical returns (2 * a) mod 256, Carry = bit 7 of a and
\* Overflow = 0; result and flags are a function of a alone, whatever b is.
C8_ShiftLeft ==
    Returned(OP_SHL) =>
        /\ out = (2 * a) % 256
        /\ flags = [Z |-> Bool((2 * a) % 256 = 0),
                    C |-> Bit(a, 7),
                    N |-> Bit(a, 6),
                    V |-> 0]

C8_Witness ==
    /\ Returned(OP_SHL) /\ a = 129 /\ b = 255
    /\ out = 2
    /\ flags = [Z |-> 0, C |-> 1, N |-> 0, V |-> 0]

\* C9: ShiftRightLogical returns a div 2 with bit 7 filled with 0 (Negative
\* = 0), Carry = bit 0 of a and Overflow = 0; result and flags are a function
\* of a alone, whatever b is.
C9_ShiftRight ==
    Returned(OP_SHR) =>
        /\ out = a \div 2
        /\ flags = [Z |-> Bool(a <= 1),
                    C |-> Bit(a, 0),
                    N |-> 0,
                    V |-> 0]

C9_Witness ==
    /\ Returned(OP_SHR) /\ a = 131 /\ b = 255
    /\ out = 65
    /\ flags = [Z |-> 0, C |-> 1, N |-> 0, V |-> 0]

\* C10: an unrecognized operation tag returns Result = 0 with the flags of a
\* zero result: Zero = 1, Negative = 0, Carry = 0, Overflow = 0.
C10_Unrecognized ==
    (pc = "ret" /\ Unrecognized) =>
        /\ out = 0
        /\ flags = [Z |-> 1, C |-> 0, N |-> 0, V |-> 0]

C10_Witness ==
    /\ pc = "ret" /\ Unrecognized /\ a = 255 /\ b = 255
    /\ prev = DirtyStorage
    /\ out = 0
    /\ flags = [Z |-> 1, C |-> 0, N |-> 0, V |-> 0]

====
